---- MODULE Spec2Model ----
(***************************************************************************)
(* One run of zip_n_up.py: main() discovers the files of a directory,      *)
(* measures them, gzips them into a staging directory, removes the         *)
(* sources, uploads the artifacts to S3, checks every object with a head   *)
(* request and removes the artifacts.                                      *)
(* Further invocations on the same directory are the action Rerun.        *)
(*                                                                         *)
(* A file name is a sequence of string pieces whose last piece is the      *)
(* suffix: <<"f1", ".jl">> is f1.jl.  A path is [dir, name].  The local    *)
(* filesystem is `disk` (path -> byte size of every existing regular       *)
(* file), the bucket is `remote` (key -> stored byte length).              *)
(***************************************************************************)
EXTENDS Integers, Sequences, FiniteSets, TLC

VARIABLES
    pc,                   \* position of main(): which statement runs next
    exc,                  \* the exception that ended the run, or NoExc
    dirorder,             \* entries of file_loc in the order iterdir yields them
    disk,                 \* path -> st_size, for every regular file that exists
    disk0,                \* disk as it was when main() was entered
    locked,               \* paths whose unlink() the filesystem refuses
    staging,              \* does file_loc/zipped_data exist
    remote,               \* the bucket: key -> ContentLength
    clock,                \* wall clock, in minutes
    run,                  \* number of the invocation of main() on this directory
    threshold,            \* --threshold
    jl_files,             \* main: jl_files
    ts,                   \* main: ts, as a number of bytes (ts * unit)
    date,                 \* gzip_files: date
    i,                    \* index of the running for-loop
    zipped_files,         \* gzip_files: zipped_files
    zip_files,            \* main: zip_files
    upload_sucess,        \* upload_files: upload_sucess
    success,              \* main: success
    double_check_success, \* double_check_s3_for_success: double_check_success
    double_check,         \* main: double_check
    ops                   \* the calls made on the filesystem and on the bucket

vars == <<pc, exc, dirorder, disk, disk0, locked, staging, remote, clock, run,
          threshold,
          jl_files, ts, date, i, zipped_files, zip_files, upload_sucess,
          success, double_check_success, double_check, ops>>

-----------------------------------------------------------------------------
(* Bounds of the model. *)

\* Entries in the directory at the start of the run.
MaxFiles == 2

\* --threshold values tried (MiB).
Thresholds == {-1, 1, 2}

-----------------------------------------------------------------------------
(* Program constants. *)

\* total_size_mb(files, unit=1024**2)
unit == 1048576

\* request_succes = 200
request_succes == 200

\* --ext default
ext == ".jl"

file_loc == "file_loc"

\* zip_folder = Path(file_loc) / 'zipped_data'
zip_folder == "file_loc/zipped_data"

\* The name of the staging directory inside file_loc (its suffix is empty).
zipped_data == <<"zipped_data", "">>

\* A Python variable that has not been assigned (a string variable or a
\* truth value; an unassigned list is << >> and an unassigned number is 0).
None == "None"

NoExc == [type |-> "none", where |-> "none"]

-----------------------------------------------------------------------------
(* The environment: directory contents, gzip output sizes, S3 behaviour. *)

Stems == <<"f1", "f2", "f3", "f4">>

\* What a directory entry can be: an empty .jl file, .jl files of one MiB
\* and of one MiB and a byte, a .jl file the filesystem refuses to unlink,
\* a file with another suffix, and a subdirectory whose name ends in .jl.
EntryKinds ==
    { [suffix |-> ".jl",  is_file |-> TRUE,  size |-> 0,        locked |-> FALSE],
      [suffix |-> ".jl",  is_file |-> TRUE,  size |-> unit,     locked |-> FALSE],
      [suffix |-> ".jl",  is_file |-> TRUE,  size |-> unit + 1, locked |-> FALSE],
      [suffix |-> ".jl",  is_file |-> TRUE,  size |-> unit,     locked |-> TRUE],
      [suffix |-> ".txt", is_file |-> TRUE,  size |-> unit + 1, locked |-> FALSE],
      [suffix |-> ".jl",  is_file |-> FALSE, size |-> 0,        locked |-> FALSE] }

\* Byte sizes a finished gzip file can have (never 0: header and trailer).
ZipSizes == {20, 21}

\* Bytes on disk of a gzip file whose writing was interrupted.
PartialSizes == {10}

\* What s3_client.upload_file does: store the object, or raise.
\* boto3 turns a ClientError of the transfer into S3UploadFailedError;
\* botocore errors that are no ClientError (NoCredentialsError,
\* EndpointConnectionError) come out of upload_file as they are.
PutErrors == {"ClientError", "NoSuchBucket", "S3UploadFailedError",
              "NoCredentialsError", "EndpointConnectionError"}

\* What s3_client.head_object raises.
HeadErrors == {"ClientError", "NoCredentialsError", "EndpointConnectionError"}

\* HTTPStatusCode values of a head response.
HeadStatuses == {200, 206}

\* Content lengths the bucket may hold after a put of n bytes.
StoredLengths(n) == {n, n - 1}

-----------------------------------------------------------------------------
(* Paths and names. *)

Path(d, n) == [dir |-> d, name |-> n]

\* Path.name
name(p) == p.name

\* Path.suffix
suffix(p) == p.name[Len(p.name)]

\* Path.is_file()
is_file(e) == e.is_file

\* Path.stat().st_size
st_size(p) == disk[p]

Range(s) == { s[k] : k \in 1..Len(s) }

Without(f, x) == [ y \in DOMAIN f \ {x} |-> f[y] ]

With(f, x, v) == [ y \in DOMAIN f \cup {x} |-> IF y = x THEN v ELSE f[y] ]

\* any(...): the fault of taking one true entry for all of them.
any(s) == \E k \in 1..Len(s) : s[k]

\* all(...)
all(s) == \A k \in 1..Len(s) : s[k]

Bool(b) == IF b THEN "True" ELSE "False"

\* Path(files_location).iterdir(): the direct children of file_loc that
\* exist now, the staging directory among them once it was made; what lies
\* inside the staging directory is not listed.
iterdir ==
    SelectSeq(dirorder, LAMBDA e : ~e.is_file \/ e.path \in DOMAIN disk)
    \o (IF staging THEN << [path |-> Path(file_loc, zipped_data), is_file |-> FALSE] >>
        ELSE << >>)

-----------------------------------------------------------------------------
(* The functions of zip_n_up.py. *)

\* datetime.now().strftime("%Y-%m-%d_%H:%M")
Minutes == <<"2019-01-01_00:00", "2019-01-01_00:01">>
datetime_now_hr_min == Minutes[clock + 1]

\* The fault of leaving out the comparison of the suffix.
get_files_any_suffix(e, entries) ==
    LET keep == SelectSeq(entries, LAMBDA f : is_file(f))
    IN  [ k \in 1..Len(keep) |-> keep[k].path ]

\* get_files_w_ext: the entries whose suffix is ext and that are regular files.
get_files_w_ext(e, entries) ==
    LET keep == SelectSeq(entries, LAMBDA f : suffix(f.path) = e /\ is_file(f))
    IN  [ k \in 1..Len(keep) |-> keep[k].path ]

\* total_size_mb: sum(file.stat().st_size / unit), kept as the number of
\* bytes, that is ts * unit (the quotients by 2^20 and their sum are exact).
RECURSIVE total_size_mb(_)
total_size_mb(files) ==
    IF files = <<>> THEN 0
    ELSE st_size(Head(files)) + total_size_mb(Tail(files))

\* The fault of stopping only below the threshold (ts < threshold).
below_threshold_strict(t, thr) == t < thr * unit

\* main: if ts <= threshold: return
below_threshold(t, thr) == t <= thr * unit

\* The fault of leaving a loop after its first element.
exhausted_after_first(k, files) == k > Len(files) \/ k > 1

\* for file in files: the loop body runs for the k-th element while one is left.
exhausted(k, files) == k > Len(files)

\* The fault of leaving the file name out of the artifact name.
file_dst_without_name(dst, file, d) == Path(dst, <<"_", d, "_", ".gz">>)

\* gzip_files: file_dst = dst / f'{file.name}_{date}_.gz'
file_dst(dst, file, d) == Path(dst, name(file) \o <<"_", d, "_", ".gz">>)

\* The fault of catching a compression error and going on with the next file.
compress_error_swallowed == "gzip"

\* gzip_files has no try/except around the copy and main has none around
\* gzip_files: an exception raised while compressing ends the run.
compress_error_propagates == "crashed"

\* The fault of using the whole path of the file as the object name.
object_name_with_prefix(file_path) == <<file_path.dir>> \o name(file_path)

\* upload_file: object_name = file_path.name
object_name(file_path) == name(file_path)

\* upload_file: except (ClientError, NoSuchBucket, S3UploadFailedError)
upload_file_catches(e) == e \in {"ClientError", "NoSuchBucket", "S3UploadFailedError"}

\* double_check_s3_for_success: except ClientError
double_check_catches(e) == e = "ClientError"

\* The fault of taking every head response for a match.
head_matches_always(r_data, succes) == TRUE

\* The fault of comparing the status code only.
head_matches_status_only(r_data, succes) == r_data[1] = succes[1]

\* The fault of comparing the content length only.
head_matches_bytes_only(r_data, succes) == r_data[2] = succes[2]

\* double_check_s3_for_success: tuple(r_data.values()) == succes
head_matches(r_data, succes) == r_data = succes

\* The fault of verifying whatever upload_files returned.
main_after_upload_unconditional(s) == "verify"

\* main: if success: double_check = ...
main_after_upload(s) == IF s THEN "verify" ELSE "done"

\* The fault of removing the artifacts whatever the verifier returned.
main_after_double_check_unconditional(dc) == "rm_zip"

\* main: if double_check: remove_files(zip_files)
main_after_double_check(dc) == IF dc THEN "rm_zip" ELSE "done"

\* file.unlink() raises when the file is missing or may not be removed.
\* Only files found in the directory can be locked: an artifact is a file
\* the run created itself in its staging directory.
unlink_error(p) ==
    IF p \notin DOMAIN disk THEN "FileNotFoundError"
    ELSE IF p \in locked THEN "PermissionError"
    ELSE "ok"

\* One call on the filesystem or the bucket: what, on which path, under which
\* key (bucket calls), how it ended, and the status and byte count involved.
Op(o, p, k, r, st, b) ==
    [op |-> o, path |-> p, key |-> k, res |-> r, status |-> st, bytes |-> b]

Raise(t, w) == [type |-> t, where |-> w]

-----------------------------------------------------------------------------
(* The state when main() is entered. *)

Init ==
    /\ pc = "start"
    /\ exc = NoExc
    /\ \E n \in 0..MaxFiles : \E kinds \in [1..n -> EntryKinds] :
         LET p(k) == Path(file_loc, <<Stems[k], kinds[k].suffix>>) IN
         /\ dirorder = [ k \in 1..n |-> [path |-> p(k), is_file |-> kinds[k].is_file] ]
         /\ disk = [ q \in { p(k) : k \in { j \in 1..n : kinds[j].is_file } } |->
                       kinds[CHOOSE k \in 1..n : p(k) = q].size ]
         /\ disk0 = disk
         /\ locked = { p(k) : k \in { j \in 1..n : kinds[j].locked } }
    /\ staging = FALSE
    /\ remote = << >>
    /\ clock = 0
    /\ run = 1
    /\ threshold \in Thresholds
    /\ jl_files = << >>
    /\ ts = 0
    /\ date = None
    /\ i = 0
    /\ zipped_files = << >>
    /\ zip_files = << >>
    /\ upload_sucess = << >>
    /\ success = None
    /\ double_check_success = << >>
    /\ double_check = None
    /\ ops = << >>

-----------------------------------------------------------------------------
(* main(), statement by statement.  The loops of gzip_files, remove_files,  *)
(* upload_files and double_check_s3_for_success take one step per file.    *)

\* jl_files = get_files_w_ext(ext, file_loc)
Discover ==
    /\ pc = "start"
    /\ jl_files' = get_files_w_ext(ext, iterdir)
    /\ pc' = "gate"
    /\ UNCHANGED <<exc, dirorder, disk0, run, disk, locked, staging, remote, clock, threshold,
                   ts, date, i, zipped_files, zip_files, upload_sucess, success,
                   double_check_success, double_check, ops>>

\* ts = total_size_mb(jl_files); if ts <= threshold: return
SizeGate ==
    /\ pc = "gate"
    /\ ts' = total_size_mb(jl_files)
    /\ pc' = IF below_threshold(ts', threshold) THEN "done" ELSE "gzip_start"
    /\ UNCHANGED <<exc, dirorder, disk0, run, disk, locked, staging, remote, clock, threshold,
                   jl_files, date, i, zipped_files, zip_files, upload_sucess,
                   success, double_check_success, double_check, ops>>

\* gzip_files: dst.mkdir(parents=True, exist_ok=True); date = ...; zipped_files = []
GzipStart ==
    /\ pc = "gzip_start"
    /\ staging' = TRUE
    /\ date' = datetime_now_hr_min
    /\ zipped_files' = << >>
    /\ i' = 1
    /\ pc' = "gzip"
    /\ ops' = Append(ops, Op("mkdir", Path(file_loc, zipped_data), << >>, "ok", 0, 0))
    /\ UNCHANGED <<exc, dirorder, disk0, run, disk, locked, remote, clock, threshold, jl_files,
                   ts, zip_files, upload_sucess, success, double_check_success,
                   double_check>>

\* gzip_files, one iteration: gzip.open creates file_dst, copyfileobj fills
\* it (or fails part-way and leaves what was written), the path is appended,
\* and the log line divides by the size of the source.
GzipFile ==
    /\ pc = "gzip"
    /\ ~exhausted(i, jl_files)
    /\ LET file == jl_files[i]
           size == st_size(file)
           dst  == file_dst(zip_folder, file, date)
       IN  \/ \E part \in PartialSizes :
                /\ disk' = With(disk, dst, part)
                /\ ops' = Append(ops, Op("gzip", file, << >>, "OSError", 0, part))
                /\ pc' = compress_error_propagates
                /\ exc' = IF pc' = "crashed" THEN Raise("OSError", "gzip_files") ELSE exc
                /\ i' = IF pc' = "crashed" THEN i ELSE i + 1
                /\ UNCHANGED zipped_files
           \/ \E zip_size \in ZipSizes :
                /\ disk' = With(disk, dst, zip_size)
                /\ zipped_files' = Append(zipped_files, dst)
                /\ IF size = 0
                   THEN /\ ops' = Append(ops, Op("gzip", file, << >>, "ZeroDivisionError", 0, zip_size))
                        /\ pc' = compress_error_propagates
                        /\ exc' = IF pc' = "crashed"
                                  THEN Raise("ZeroDivisionError", "gzip_files") ELSE exc
                        /\ i' = IF pc' = "crashed" THEN i ELSE i + 1
                   ELSE /\ ops' = Append(ops, Op("gzip", file, << >>, "ok", 0, zip_size))
                        /\ i' = i + 1
                        /\ UNCHANGED <<pc, exc>>
    /\ UNCHANGED <<dirorder, disk0, run, locked, staging, remote, clock, threshold, jl_files,
                   ts, date, zip_files, upload_sucess, success,
                   double_check_success, double_check>>

\* The fault of leaving out remove_files(jl_files) after gzip_files.
GzipReturn_skips_remove ==
    /\ pc = "gzip"
    /\ exhausted(i, jl_files)
    /\ zip_files' = zipped_files
    /\ upload_sucess' = << >>
    /\ i' = 1
    /\ pc' = "upload"
    /\ UNCHANGED <<exc, dirorder, disk0, run, disk, locked, staging, remote, clock,
                   threshold, jl_files, ts, date, zipped_files, success,
                   double_check_success, double_check, ops>>

\* gzip_files: return zipped_files; main: zip_files = ...
GzipReturn ==
    /\ pc = "gzip"
    /\ exhausted(i, jl_files)
    /\ zip_files' = zipped_files
    /\ i' = 1
    /\ pc' = "rm_src"
    /\ UNCHANGED <<exc, dirorder, disk0, run, disk, locked, staging, remote, clock, threshold,
                   jl_files, ts, date, zipped_files, upload_sucess, success,
                   double_check_success, double_check, ops>>

\* remove_files, one iteration on the list `files`: file.unlink()
remove_file(files, where) ==
    /\ ~exhausted(i, files)
    /\ LET file == files[i]
           r    == unlink_error(file)
       IN  /\ ops' = Append(ops, Op("unlink", file, << >>, r, 0, 0))
           /\ IF r = "ok"
              THEN /\ disk' = Without(disk, file)
                   /\ i' = i + 1
                   /\ UNCHANGED <<pc, exc>>
              ELSE /\ pc' = "crashed"
                   /\ exc' = Raise(r, where)
                   /\ UNCHANGED <<disk, i>>
    /\ UNCHANGED <<dirorder, disk0, run, locked, staging, remote, clock, threshold, jl_files,
                   ts, date, zipped_files, zip_files, upload_sucess, success,
                   double_check_success, double_check>>

\* main: remove_files(jl_files)
RemoveSource ==
    /\ pc = "rm_src"
    /\ remove_file(jl_files, "remove_files(jl_files)")

RemoveSourcesReturn ==
    /\ pc = "rm_src"
    /\ exhausted(i, jl_files)
    /\ upload_sucess' = << >>
    /\ i' = 1
    /\ pc' = "upload"
    /\ UNCHANGED <<exc, dirorder, disk0, run, disk, locked, staging, remote, clock, threshold,
                   jl_files, ts, date, zipped_files, zip_files, success,
                   double_check_success, double_check, ops>>

\* upload_files, one iteration: success = upload_file(f_abs_path, bucket)
UploadFile ==
    /\ pc = "upload"
    /\ ~exhausted(i, zip_files)
    /\ LET file == zip_files[i]
           key  == object_name(file)
       IN  \/ \E len \in StoredLengths(st_size(file)) :
                /\ remote' = With(remote, key, len)
                /\ upload_sucess' = Append(upload_sucess, TRUE)
                /\ ops' = Append(ops, Op("put", file, key, "True", 0, len))
                /\ i' = i + 1
                /\ UNCHANGED <<pc, exc>>
           \/ \E e \in PutErrors :
                IF upload_file_catches(e)
                THEN /\ upload_sucess' = Append(upload_sucess, FALSE)
                     /\ ops' = Append(ops, Op("put", file, key, "False", 0, 0))
                     /\ i' = i + 1
                     /\ UNCHANGED <<pc, exc, remote>>
                ELSE /\ ops' = Append(ops, Op("put", file, key, e, 0, 0))
                     /\ pc' = "crashed"
                     /\ exc' = Raise(e, "upload_file")
                     /\ UNCHANGED <<upload_sucess, i, remote>>
    /\ UNCHANGED <<dirorder, disk0, run, disk, locked, staging, clock, threshold, jl_files, ts,
                   date, zipped_files, zip_files, success, double_check_success,
                   double_check>>

\* upload_files: return all(upload_sucess); main: if success:
UploadReturn ==
    /\ pc = "upload"
    /\ exhausted(i, zip_files)
    /\ success' = Bool(all(upload_sucess))
    /\ pc' = main_after_upload(all(upload_sucess))
    /\ double_check_success' = << >>
    /\ i' = 1
    /\ UNCHANGED <<exc, dirorder, disk0, run, disk, locked, staging, remote, clock, threshold,
                   jl_files, ts, date, zipped_files, zip_files, upload_sucess,
                   double_check, ops>>

\* What head_object answers for a key: a response with the stored length,
\* or an error; a key that was never written gives ClientError (404).
HeadResponses(key) ==
    IF key \in DOMAIN remote
    THEN { <<st, remote[key]>> : st \in HeadStatuses }
    ELSE { }

\* double_check_s3_for_success, one iteration
HeadCheck ==
    /\ pc = "verify"
    /\ ~exhausted(i, zip_files)
    /\ LET file == zip_files[i]
           key  == name(file)
       IN  \/ \E r_data \in HeadResponses(key) :
                LET succes == <<request_succes, st_size(file)>> IN
                /\ double_check_success' =
                       Append(double_check_success, head_matches(r_data, succes))
                /\ ops' = Append(ops, Op("head", file, key, "ok", r_data[1], r_data[2]))
                /\ i' = i + 1
                /\ UNCHANGED <<pc, exc>>
           \/ \E e \in HeadErrors :
                IF double_check_catches(e)
                THEN /\ double_check_success' = Append(double_check_success, FALSE)
                     /\ ops' = Append(ops, Op("head", file, key, e, 0, 0))
                     /\ i' = i + 1
                     /\ UNCHANGED <<pc, exc>>
                ELSE /\ ops' = Append(ops, Op("head", file, key, e, 0, 0))
                     /\ pc' = "crashed"
                     /\ exc' = Raise(e, "double_check_s3_for_success")
                     /\ UNCHANGED <<double_check_success, i>>
    /\ UNCHANGED <<dirorder, disk0, run, disk, locked, staging, remote, clock, threshold,
                   jl_files, ts, date, zipped_files, zip_files, upload_sucess,
                   success, double_check>>

\* double_check_s3_for_success: return all(double_check_success);
\* main: if double_check:
VerifyReturn ==
    /\ pc = "verify"
    /\ exhausted(i, zip_files)
    /\ double_check' = Bool(all(double_check_success))
    /\ pc' = main_after_double_check(all(double_check_success))
    /\ i' = 1
    /\ UNCHANGED <<exc, dirorder, disk0, run, disk, locked, staging, remote, clock, threshold,
                   jl_files, ts, date, zipped_files, zip_files, upload_sucess,
                   success, double_check_success, ops>>

\* main: remove_files(zip_files)
RemoveArtifact ==
    /\ pc = "rm_zip"
    /\ remove_file(zip_files, "remove_files(zip_files)")

\* The fault of returning from the last remove_files before its list is done.
RemoveArtifactsReturn_early ==
    /\ pc = "rm_zip"
    /\ pc' = "done"
    /\ UNCHANGED <<exc, dirorder, disk0, run, disk, locked, staging, remote, clock,
                   threshold, jl_files, ts, date, i, zipped_files, zip_files,
                   upload_sucess, success, double_check_success, double_check, ops>>

RemoveArtifactsReturn ==
    /\ pc = "rm_zip"
    /\ exhausted(i, zip_files)
    /\ pc' = "done"
    /\ UNCHANGED <<exc, dirorder, disk0, run, disk, locked, staging, remote, clock, threshold,
                   jl_files, ts, date, i, zipped_files, zip_files, upload_sucess,
                   success, double_check_success, double_check, ops>>

Next ==
    \/ Discover
    \/ SizeGate
    \/ GzipStart
    \/ GzipFile
    \/ GzipReturn
    \/ RemoveSource
    \/ RemoveSourcesReturn
    \/ UploadFile
    \/ UploadReturn
    \/ HeadCheck
    \/ VerifyReturn
    \/ RemoveArtifact
    \/ RemoveArtifactsReturn

Spec == Init /\ [][Next]_vars

\* main() is a sequential program: a step that can be taken is taken.
FairSpec == Spec /\ WF_vars(Next)

-----------------------------------------------------------------------------
(* Further invocations on the same directory.  Between two invocations the  *)
(* producer of the files may write files of the same names again, and the  *)
(* clock may or may not have reached the next minute.  The disk, the       *)
(* staging directory and the bucket are what the earlier run left.         *)

\* Invocations of main() in a sequence of runs.
MaxRuns == 2

\* The files of file_loc itself in a disk.
InFileLoc(d) == { q \in DOMAIN d : q.dir = file_loc }

Rerun ==
    /\ pc \in {"done", "crashed"}
    /\ run < MaxRuns
    /\ \E again \in BOOLEAN, tick \in {0, 1} :
         /\ clock + tick < Len(Minutes)
         /\ clock' = clock + tick
         /\ disk' = IF again
                    THEN [ q \in DOMAIN disk \cup InFileLoc(disk0) |->
                             IF q \in InFileLoc(disk0) THEN disk0[q] ELSE disk[q] ]
                    ELSE disk
    /\ disk0' = disk'
    /\ run' = run + 1
    /\ pc' = "start"
    /\ exc' = NoExc
    /\ jl_files' = << >>
    /\ ts' = 0
    /\ date' = None
    /\ i' = 0
    /\ zipped_files' = << >>
    /\ zip_files' = << >>
    /\ upload_sucess' = << >>
    /\ success' = None
    /\ double_check_success' = << >>
    /\ double_check' = None
    /\ ops' = << >>
    /\ UNCHANGED <<dirorder, locked, staging, remote, threshold>>

NextRuns ==
    \/ Next
    \/ Rerun

SpecRuns == Init /\ [][NextRuns]_vars

-----------------------------------------------------------------------------
(* Vocabulary of the properties. *)

\* The run is over: main returned, or an exception left it.
Ended == pc \in {"done", "crashed"}

\* The calls of one kind, in the order they were made.
OpsOf(o) == SelectSeq(ops, LAMBDA r : r.op = o)

\* The positions in ops of the calls of one kind.
At(o) == { k \in 1..Len(ops) : ops[k].op = o }

\* The positions in ops where a compressed artifact is unlinked.
ArtifactUnlinks == { k \in At("unlink") : ops[k].path.dir = zip_folder /\ ops[k].res = "ok" }

\* The positions in ops where a source file is unlinked.
SourceUnlinks == { k \in At("unlink") : ops[k].path.dir = file_loc /\ ops[k].res = "ok" }

\* The artifact that belongs to a source file of this run.
ArtifactOf(f) == file_dst(zip_folder, f, date)

OnDisk(p) == p \in DOMAIN disk

\* The .jl regular files of the directory as main() found it, and their bytes.
RECURSIVE BytesAtEntry(_)
BytesAtEntry(entries) ==
    IF entries = << >> THEN 0
    ELSE (IF Head(entries).is_file /\ Head(entries).path.name[2] = ext
          THEN disk0[Head(entries).path] ELSE 0)
         + BytesAtEntry(Tail(entries))

-----------------------------------------------------------------------------
(* Properties. *)

\* C1: at the end of a run the compressed artifacts are gone exactly when
\* upload_files returned true and double_check_s3_for_success returned true;
\* in every other run every artifact of the batch is still on disk, and at
\* no moment is an artifact unlinked without both results being true.
C1_ArtifactsDeletedIffUploadedAndVerified ==
    /\ ArtifactUnlinks # {} => success = "True" /\ double_check = "True"
    /\ Ended =>
         IF success = "True" /\ double_check = "True"
         THEN \A a \in Range(zipped_files) : ~OnDisk(a)
         ELSE \A a \in Range(zipped_files) : OnDisk(a)

\* C1 happens: two artifacts uploaded, the head of the second reports
\* another length, the run is over and both artifacts are on disk.
C1_Witness ==
    /\ pc = "done"
    /\ Len(zip_files) = 2
    /\ success = "True"
    /\ double_check_success = <<TRUE, FALSE>>
    /\ double_check = "False"
    /\ \E k \in At("head") :
         /\ ops[k].path = zip_files[2]
         /\ ops[k].status = request_succes
         /\ ops[k].bytes # disk[zip_files[2]]
    /\ \A a \in Range(zip_files) : OnDisk(a)

\* C2: the stages come in the order compress, upload, verify, delete: a put
\* is made only after every source of the batch was compressed, a head only
\* after a put was attempted for every artifact, and an artifact is unlinked
\* only after a head response was read for every artifact of the batch.
C2_StagesInOrder ==
    /\ \A k \in At("put") : \A f \in Range(jl_files) :
         \E j \in At("gzip") : j < k /\ ops[j].path = f /\ ops[j].res = "ok"
    /\ \A k \in At("head") : \A f \in Range(jl_files) :
         \E j \in At("put") : j < k /\ ops[j].path = ArtifactOf(f)
    /\ \A k \in ArtifactUnlinks : \A f \in Range(jl_files) :
         \E j \in At("head") : j < k /\ ops[j].path = ArtifactOf(f) /\ ops[j].res = "ok"
    /\ \A k \in At("mkdir") \cup At("gzip") : \A j \in At("put") \cup At("head") : k < j

\* C2 happens: a batch of two went through every stage and its artifacts
\* were unlinked.
C2_Witness ==
    /\ pc = "done"
    /\ Len(jl_files) = 2
    /\ Cardinality(ArtifactUnlinks) = 2

\* C3: past the size gate the total of the discovered files is strictly
\* above the threshold; with a total at or below it the run is over at the
\* gate and nothing was touched: no call was made, the disk and the bucket
\* are as they were and the staging directory does not exist.
C3_SizeGate ==
    pc \notin {"start", "gate"} =>
        IF BytesAtEntry(dirorder) > threshold * unit
        THEN pc # "done" \/ ops # << >>
        ELSE /\ pc = "done"
             /\ exc = NoExc
             /\ ops = << >>
             /\ disk = disk0
             /\ remote = << >>
             /\ ~staging

\* C3 happens: the files total exactly the threshold and the run ended at
\* the gate.
C3_Witness ==
    /\ pc = "done"
    /\ Len(jl_files) >= 1
    /\ threshold = 1
    /\ BytesAtEntry(dirorder) = threshold * unit
    /\ ops = << >>

\* C4: upload_files calls upload_file for the artifacts in their order, it
\* goes on after a call that returned false, and when it has returned every
\* artifact was attempted and its result is true exactly when every call
\* returned true.
C4_UploadAllAndAggregate ==
    LET puts == OpsOf("put") IN
    /\ Len(puts) <= Len(zip_files)
    /\ \A k \in 1..Len(puts) : puts[k].path = zip_files[k]
    /\ \A k \in 1..Len(puts) : k < Len(puts) => puts[k].res \in {"True", "False"}
    /\ pc = "upload" => Len(upload_sucess) = Len(puts) /\ i = Len(puts) + 1
    /\ \A k \in 1..Len(upload_sucess) : upload_sucess[k] = (puts[k].res = "True")
    /\ success # None =>
         /\ Len(puts) = Len(zip_files)
         /\ (success = "True") = (\A k \in 1..Len(puts) : puts[k].res = "True")

\* C4 happens: the first of two uploads returned false, the second was
\* still made and returned true, and the result is false.
C4_Witness ==
    LET puts == OpsOf("put") IN
    /\ success = "False"
    /\ Len(zip_files) = 2
    /\ Len(puts) = 2
    /\ puts[1].res = "False"
    /\ puts[2].res = "True"

\* C5: no failure of the remote store during an upload comes out of
\* upload_file as an exception: every call returns true or false and the
\* run is never ended by an exception raised in upload_file.
C5_UploadErrorsAreCaught ==
    /\ \A k \in At("put") : ops[k].res \in {"True", "False"}
    /\ exc.where # "upload_file"

\* C6: the verifier counts an artifact as verified exactly when the head
\* response for the key that is the artifact's file name has status 200 and
\* the length of the local artifact file, and its result is true exactly
\* when every artifact of the batch is verified.
C6_VerifiedIffStatusAndLength ==
    LET heads == OpsOf("head") IN
    /\ \A k \in 1..Len(double_check_success) :
         /\ heads[k].path = zip_files[k]
         /\ heads[k].key = zip_files[k].name
         /\ pc = "verify" =>
              double_check_success[k] =
                  ( /\ heads[k].res = "ok"
                    /\ heads[k].status = 200
                    /\ heads[k].bytes = disk[zip_files[k]] )
    /\ double_check # None =>
         (double_check = "True") =
             ( /\ Len(double_check_success) = Len(zip_files)
               /\ \A k \in 1..Len(zip_files) : double_check_success[k] )

\* C6 happens: of two artifacts the first is verified and the second is
\* not, because its head response has the right length but not status 200.
C6_Witness ==
    LET heads == OpsOf("head") IN
    /\ pc = "verify"
    /\ Len(zip_files) = 2
    /\ double_check_success = <<TRUE, FALSE>>
    /\ heads[2].res = "ok"
    /\ heads[2].status # 200
    /\ heads[2].bytes = disk[zip_files[2]]

\* C7: an error of the remote store on a head read never ends the run: no
\* exception leaves double_check_s3_for_success, and when a head read
\* failed the loop still goes through every artifact.
C7_HeadErrorsAreCaught ==
    /\ exc.where # "double_check_s3_for_success"
    /\ (Ended /\ \E k \in At("head") : ops[k].res # "ok") =>
         /\ Len(OpsOf("head")) = Len(zip_files)
         /\ double_check = "False"

\* C8: when an upload failed, no head request is made and no artifact is
\* unlinked.
C8_NoVerifyAfterFailedUpload ==
    (\E k \in At("put") : ops[k].res # "True") =>
        /\ At("head") = {}
        /\ ArtifactUnlinks = {}
        /\ \A a \in Range(zipped_files) : OnDisk(a)

\* C8 happens: one of two uploads failed, the run is over, nothing was read
\* from the bucket.
C8_Witness ==
    /\ pc = "done"
    /\ Len(zip_files) = 2
    /\ success = "False"
    /\ upload_sucess = <<TRUE, FALSE>>
    /\ At("head") = {}

\* C9: when compressing a source fails, the run stops there: no source of
\* the batch is unlinked (the failed one included), nothing is uploaded,
\* nothing is read from the bucket and no artifact is unlinked.
C9_CompressionFailureAborts ==
    (\E k \in At("gzip") : ops[k].res # "ok") =>
        /\ pc = "crashed"
        /\ exc.where = "gzip_files"
        /\ \A f \in Range(jl_files) : OnDisk(f)
        /\ At("unlink") = {}
        /\ At("put") = {}
        /\ At("head") = {}

\* C9 happens: the first of two sources was compressed and the copy of the
\* second one failed.
C9_Witness ==
    LET zips == OpsOf("gzip") IN
    /\ pc = "crashed"
    /\ Len(jl_files) = 2
    /\ Len(zips) = 2
    /\ zips[1].res = "ok"
    /\ zips[2].res = "OSError"

\* C10: at the end of a run a source file is gone exactly when its artifact
\* was created, and as many sources are gone as artifacts were produced.
C10_SourceDeletedIffArtifactCreated ==
    Ended =>
        /\ \A f \in Range(jl_files) :
             ~OnDisk(f) <=> ArtifactOf(f) \in Range(zipped_files)
        /\ Cardinality(SourceUnlinks) = Len(zipped_files)

\* C11: the sources are removed as a batch between compression and upload:
\* a source is unlinked only after every source of the batch was compressed,
\* every source is unlinked before the first put, and so the sources are
\* gone in every run that reached the upload, whatever upload and
\* verification give.
C11_SourcesRemovedAfterCompressionBeforeUpload ==
    /\ \A k \in At("unlink") : ops[k].path.dir = file_loc =>
         \A f \in Range(jl_files) :
            \E j \in At("gzip") : j < k /\ ops[j].path = f /\ ops[j].res = "ok"
    /\ \A k \in At("put") : \A f \in Range(jl_files) :
         \E j \in SourceUnlinks : j < k /\ ops[j].path = f
    /\ (pc \in {"upload", "verify", "rm_zip"} \/ At("put") # {}) =>
         \A f \in Range(jl_files) : ~OnDisk(f)

\* C11 happens: a batch of two was compressed, its sources were removed,
\* the upload then failed and the run is over with the sources gone.
C11_Witness ==
    /\ pc = "done"
    /\ Len(jl_files) = 2
    /\ success = "False"
    /\ Cardinality(SourceUnlinks) = 2
    /\ \A f \in Range(jl_files) : ~OnDisk(f)
    /\ \A a \in Range(zip_files) : OnDisk(a)

\* The compressed artifacts an earlier run left in the staging directory.
Leftover == { a \in DOMAIN disk0 : a.dir = zip_folder /\ disk0[a] \in ZipSizes }

\* C12: a run that finds artifacts left by an earlier run whose upload or
\* verification failed (the sources of that run are gone, its artifacts are
\* in the staging directory) uploads each of them again under its file
\* name, and it does not discover a source that no longer exists.
C12_LeftoverArtifactsUploadedAgain ==
    (run > 1 /\ pc = "done") =>
        /\ \A f \in Range(jl_files) : f \in DOMAIN disk0
        /\ InFileLoc(disk0) = {} =>
             \A a \in Leftover :
                \E k \in At("put") : ops[k].path = a /\ ops[k].key = name(a)

\* The terminal states of a run.
DONE_NOOP ==
    /\ pc = "done"
    /\ ops = << >>
    /\ success = None
    /\ disk = disk0

DONE_SUCCESS ==
    /\ pc = "done"
    /\ ops # << >>
    /\ success = "True"
    /\ double_check = "True"
    /\ Len(zip_files) = Len(jl_files)
    /\ \A f \in Range(jl_files) : ~OnDisk(f)
    /\ \A a \in Range(zip_files) : ~OnDisk(a)

DONE_PARTIAL ==
    /\ pc = "done"
    /\ ops # << >>
    /\ success = "False" \/ (success = "True" /\ double_check = "False")
    /\ Len(zip_files) = Len(jl_files)
    /\ \A f \in Range(jl_files) : ~OnDisk(f)
    /\ \A a \in Range(zip_files) : OnDisk(a)

\* An exception left main().
ABORTED ==
    /\ pc = "crashed"
    /\ exc # NoExc

\* How many of the given conditions hold.
Count(conds) == Cardinality({ k \in 1..Len(conds) : conds[k] })

\* The steps of the state machine of a run.
PathEdges ==
    { <<"start", "gate">>, <<"gate", "done">>, <<"gate", "gzip_start">>,
      <<"gzip_start", "gzip">>, <<"gzip", "rm_src">>, <<"rm_src", "upload">>,
      <<"upload", "verify">>, <<"upload", "done">>, <<"verify", "rm_zip">>,
      <<"verify", "done">>, <<"rm_zip", "done">> }

\* Where an exception can leave the run.
AbortEdges ==
    { <<"gzip", "crashed">>, <<"rm_src", "crashed">>, <<"upload", "crashed">>,
      <<"verify", "crashed">> }

HappyPath ==
    /\ pc = "done"
    /\ BytesAtEntry(dirorder) > threshold * unit
    /\ \A k \in At("gzip") : ops[k].res = "ok"
    /\ success = "True"
    /\ double_check = "True"

\* What the happy path leaves behind, the directories aside: no source, no
\* artifact, and in the bucket every artifact under its file name with the
\* byte size gzip_files gave it.
HappyPathFiles ==
    /\ Len(zip_files) = Len(jl_files)
    /\ \A f \in Range(jl_files) : ~OnDisk(f)
    /\ \A a \in Range(zip_files) : ~OnDisk(a)
    /\ \A k \in 1..Len(zip_files) :
         /\ name(zip_files[k]) \in DOMAIN remote
         /\ remote[name(zip_files[k])] = OpsOf("gzip")[k].bytes

\* No file lies in the staging directory.
StagingEmpty == \A q \in DOMAIN disk : q.dir # zip_folder

\* file_loc has no entry at all.
SourceDirEmpty == iterdir = << >>

\* C14 as stated: the happy path ends with no source, no artifact, every
\* artifact in the bucket, and the source directory and the staging
\* directory both empty.
C14_HappyPathLeavesBothDirectoriesEmpty ==
    HappyPath => HappyPathFiles /\ StagingEmpty /\ SourceDirEmpty

\* C14 as amended: the happy path ends with no source, no artifact, every
\* artifact in the bucket under its file name with its byte size and the
\* staging directory empty; the source directory holds no file of the
\* extension any more, but it is not empty: it holds the staging directory,
\* and every entry that did not match is still there.
C14_HappyPathFinalState ==
    HappyPath =>
        /\ HappyPathFiles
        /\ StagingEmpty
        /\ get_files_w_ext(ext, iterdir) = << >>
        /\ staging
        /\ Path(file_loc, zipped_data) \in { e.path : e \in Range(iterdir) }
        /\ \A e \in Range(dirorder) :
             (e.path \notin Range(jl_files)) =>
                 /\ e \in Range(iterdir)
                 /\ e.is_file => OnDisk(e.path) /\ disk[e.path] = disk0[e.path]

\* C14 happens: two sources went through compression, upload and
\* verification, and the run is over.
C14_Witness ==
    /\ HappyPath
    /\ Len(jl_files) = 2
    /\ Cardinality(At("head")) = 2
    /\ Cardinality(ArtifactUnlinks) = 2
    /\ DOMAIN remote = { name(a) : a \in Range(zip_files) }

-----------------------------------------------------------------------------
(* get_files_w_ext on its own: main() is entered on any directory, also one *)
(* that holds the staging directory and artifacts of earlier runs, and     *)
(* makes its first call.                                                   *)

InitDiscover ==
    /\ pc = "start"
    /\ exc = NoExc
    /\ \E n \in 0..MaxFiles : \E kinds \in [1..n -> EntryKinds] :
       \E old \in SUBSET { k \in 1..n : kinds[k].is_file /\ kinds[k].suffix = ext } :
         LET p(k) == Path(file_loc, <<Stems[k], kinds[k].suffix>>)
             files == { k \in 1..n : kinds[k].is_file }
             arts == { file_dst(zip_folder, p(k), Minutes[1]) : k \in old }
         IN
         /\ dirorder = [ k \in 1..n |-> [path |-> p(k), is_file |-> kinds[k].is_file] ]
         /\ disk = [ q \in { p(k) : k \in files } \cup arts |->
                       IF q \in arts THEN CHOOSE z \in ZipSizes : TRUE
                       ELSE kinds[CHOOSE k \in 1..n : p(k) = q].size ]
         /\ disk0 = disk
         /\ locked = { p(k) : k \in { j \in 1..n : kinds[j].locked } }
         /\ staging \in (IF old = {} THEN BOOLEAN ELSE {TRUE})
    /\ remote = << >>
    /\ clock = 0
    /\ run = 1
    /\ threshold \in Thresholds
    /\ jl_files = << >>
    /\ ts = 0
    /\ date = None
    /\ i = 0
    /\ zipped_files = << >>
    /\ zip_files = << >>
    /\ upload_sucess = << >>
    /\ success = None
    /\ double_check_success = << >>
    /\ double_check = None
    /\ ops = << >>

NextDiscover == Discover

SpecDiscover == InitDiscover /\ [][NextDiscover]_vars

\* The position of a path among the entries of file_loc.
PlaceOf(q) == CHOOSE k \in 1..Len(iterdir) : iterdir[k].path = q

\* C15: what get_files_w_ext returns is exactly the direct children of the
\* directory that are regular files with the suffix ext, each once and in
\* the order of the directory: no directory, nothing from inside the
\* staging directory, no file of another suffix; nothing is raised, also
\* when the result is empty.
C15_DiscoverExactlyMatchingFiles ==
    pc # "start" =>
        /\ pc = "gate" /\ exc = NoExc
        /\ \A q \in Range(jl_files) :
             /\ q.dir = file_loc
             /\ q \in DOMAIN disk
             /\ q.name[Len(q.name)] = ext
             /\ \E e \in Range(dirorder) : e.path = q /\ e.is_file
        /\ \A q \in DOMAIN disk :
             (q.dir = file_loc /\ q.name[Len(q.name)] = ext) => q \in Range(jl_files)
        /\ \A j, k \in 1..Len(jl_files) :
             j < k => PlaceOf(jl_files[j]) < PlaceOf(jl_files[k])
        /\ (\A q \in DOMAIN disk : q.dir = file_loc => q.name[Len(q.name)] # ext)
             => jl_files = << >>

\* C15 happens: the directory holds one matching file, one entry that does
\* not match, the staging directory and an old artifact in it, and the
\* call returned the matching file alone.
C15_Witness ==
    /\ pc = "gate"
    /\ Len(dirorder) = 2
    /\ Len(jl_files) = 1
    /\ staging
    /\ \E q \in DOMAIN disk : q.dir = zip_folder

\* The artifact unlinks, in the order they were made.
ArtifactUnlinkOps ==
    SelectSeq(ops, LAMBDA r : r.op = "unlink" /\ r.path.dir = zip_folder)

\* s is the beginning of t.
IsPrefix(s, t) == Len(s) <= Len(t) /\ \A k \in 1..Len(s) : s[k] = t[k]

Paths(rs) == [ k \in 1..Len(rs) |-> rs[k].path ]

\* C16: gzip_files produces one artifact per discovered source, in the
\* order of the sources, all with the one timestamp of the run and no two
\* on the same path; and exactly that sequence is what upload_files,
\* double_check_s3_for_success and the last remove_files go through.
C16_ArtifactSequenceIsPassedOn ==
    /\ Len(zipped_files) <= Len(jl_files)
    /\ \A k \in 1..Len(zipped_files) :
         zipped_files[k] =
             Path(zip_folder, jl_files[k].name \o <<"_", date, "_", ".gz">>)
    /\ \A j, k \in 1..Len(zipped_files) : j # k => zipped_files[j] # zipped_files[k]
    /\ pc \in {"rm_src", "upload", "verify", "rm_zip"} =>
         zip_files = zipped_files /\ Len(zip_files) = Len(jl_files)
    /\ At("put") # {} => zip_files = zipped_files /\ Len(zip_files) = Len(jl_files)
    /\ IsPrefix(Paths(OpsOf("put")), zip_files)
    /\ IsPrefix(Paths(OpsOf("head")), zip_files)
    /\ IsPrefix(Paths(ArtifactUnlinkOps), zip_files)
    /\ success # None => Len(OpsOf("put")) = Len(zip_files)
    /\ double_check # None => Len(OpsOf("head")) = Len(zip_files)
    /\ (pc = "done" /\ double_check = "True") =>
         Len(ArtifactUnlinkOps) = Len(zip_files)

\* C16 happens: two artifacts were produced, uploaded and checked, and the
\* first of them has just been removed.
C16_Witness ==
    /\ pc = "rm_zip"
    /\ Len(jl_files) = 2
    /\ Len(zip_files) = 2
    /\ i = 2
    /\ Paths(ArtifactUnlinkOps) = <<zip_files[1]>>

\* C17: the key of every put and of every head is the bare file name of the
\* artifact, without any piece of its directory; so the uploader and the
\* verifier use the same key for the same artifact, and what the bucket
\* holds lies under the file names of the artifacts uploaded.
C17_KeyIsTheFileName ==
    /\ \A k \in At("put") \cup At("head") :
         /\ ops[k].key = ops[k].path.name
         /\ \A n \in 1..Len(ops[k].key) : ops[k].key[n] # ops[k].path.dir
    /\ \A j \in At("put") : \A k \in At("head") :
         ops[j].path = ops[k].path => ops[j].key = ops[k].key
    /\ \A j, k \in At("put") \cup At("head") :
         ops[j].path.name = ops[k].path.name => ops[j].key = ops[k].key
    /\ DOMAIN remote = { ops[k].path.name : k \in { j \in At("put") : ops[j].res = "True" } }

\* C17 happens: the second of two artifacts was written to the bucket and
\* then read back with a head request.
C17_Witness ==
    /\ Len(zip_files) = 2
    /\ \E j \in At("put") : \E k \in At("head") :
         /\ ops[j].path = zip_files[2]
         /\ ops[k].path = zip_files[2]
         /\ ops[j].key = ops[k].key
         /\ ops[k].res = "ok"

\* The source files of the run: the files of the extension that were in
\* the directory when main() was entered.
SourcesAtEntry == { q \in InFileLoc(disk0) : q.name[Len(q.name)] = ext }

\* The source is where it was.
HeldBySource(f) == OnDisk(f)

\* The artifact of the source was written completely and is on disk.
HeldByArtifact(f) ==
    /\ OnDisk(ArtifactOf(f))
    /\ \E j \in At("gzip") :
         ops[j].path = f /\ ops[j].res = "ok" /\ disk[ArtifactOf(f)] = ops[j].bytes

\* Before position n of ops a head of the artifact's key answered 200 and
\* the byte size of the artifact, and the bucket holds that many bytes.
HeldByBucket(f, n) ==
    \E j \in At("gzip") : \E k \in At("head") :
        /\ k < n
        /\ ops[j].path = f /\ ops[j].res = "ok"
        /\ ops[k].path = ArtifactOf(f) /\ ops[k].key = name(ArtifactOf(f))
        /\ ops[k].res = "ok"
        /\ ops[k].status = 200
        /\ ops[k].bytes = ops[j].bytes
        /\ name(ArtifactOf(f)) \in DOMAIN remote
        /\ remote[name(ArtifactOf(f))] = ops[j].bytes

\* C18: in every state of a run each source file of the batch is held by
\* the source itself, by its complete local artifact, or by an object of
\* the bucket under the artifact's key whose head answered 200 and the
\* artifact's byte size; and an artifact is unlinked only when the last of
\* these held before.
C18_NoDataLossInOneRun ==
    \A f \in SourcesAtEntry :
        /\ HeldBySource(f) \/ HeldByArtifact(f) \/ HeldByBucket(f, Len(ops) + 1)
        /\ \A k \in At("unlink") :
             ops[k].path = ArtifactOf(f) => HeldByBucket(f, k)

\* C18 happens: of a batch of two neither the sources nor the artifacts
\* are on disk any more and both are held by the bucket.
C18_Witness ==
    /\ pc = "done"
    /\ Cardinality(SourcesAtEntry) = 2
    /\ \A f \in SourcesAtEntry :
         /\ ~OnDisk(f)
         /\ ~OnDisk(ArtifactOf(f))
         /\ HeldByBucket(f, Len(ops) + 1)

\* An artifact on disk that was uploaded and is not verified: the bucket
\* holds another number of bytes under its key.
PendingUnverified(a) ==
    /\ a \in DOMAIN disk
    /\ a.dir = zip_folder
    /\ disk[a] \in ZipSizes
    /\ name(a) \in DOMAIN remote
    /\ remote[name(a)] # disk[a]

\* C19: over a sequence of runs, no step of gzip_files writes over an
\* artifact on disk that is not verified in the bucket, and no upload
\* replaces an object the bucket already holds under that key.
C19_NoOverwriteAcrossRuns ==
    [][ Len(ops') = Len(ops) + 1 =>
          LET o == ops'[Len(ops')] IN
          /\ o.op = "gzip" => ~PendingUnverified(file_dst(zip_folder, o.path, date))
          /\ (o.op = "put" /\ o.res = "True") => o.key \notin DOMAIN remote ]_vars

====
